---- MODULE Spec2Model ----
(***************************************************************************)
(* Model of telegraph-img-uploader (src/app.js): the upload loop with its  *)
(* per-file retry state machine, the result-file checkpoint, and the       *)
(* create/edit page protocol against the Telegraph API.                    *)
(***************************************************************************)
EXTENDS Integers, Sequences, FiniteSets, TLC

(* ---- bounds ---- *)
\* number of image files that may be present in IMAGE_DIR
MaxFiles == 2

(* ---- CONFIG (src/app.js 8-22) ---- *)
BASE_URL == "https://im.gurl.eu.org"
ALLOWED_EXT == {".jpg", ".jpeg", ".png", ".gif", ".webp"}
CONCURRENCY == 10
RETRY_TIMES == 10
TELEGRAPH_TITLE == "TELEGRAPH_TITLE"
PAGE_URL == "PAGE_URL"

(* ---- JavaScript values ---- *)
\* null / a present value; used where the code tests or dereferences null
Null == [isNull |-> TRUE]
Some(v) == [isNull |-> FALSE, val |-> v]

\* String.prototype.toLowerCase on the extensions that occur
toLowerCase(ext) ==
  CASE ext = ".PNG" -> ".png"
    [] ext = ".JPG" -> ".jpg"
    [] OTHER -> ext

\* decimal rendering of a natural number inside a template string
RECURSIVE numToDigits(_)
numToDigits(n) ==
  LET d == <<"0", "1", "2", "3", "4", "5", "6", "7", "8", "9">>
  IN IF n < 10 THEN <<d[n + 1]>> ELSE numToDigits(n \div 10) \o <<d[(n % 10) + 1]>>

(* ---- environment: directory entries, server answers ---- *)
\* a directory entry is a file name, kept as stem + extension (path.extname)
ImageExts == <<".png", ".JPG", ".gif", ".webp", ".jpeg">>
ImageEntries == {[stem |-> k, ext |-> ImageExts[((k - 1) % 5) + 1]] : k \in 1..MaxFiles}
OtherEntry == [stem |-> 0, ext |-> ".txt"]
DirEntries == ImageEntries \cup {OtherEntry}

\* readdirSync result for a set of entries: one listing per set, by name
RECURSIVE listing(_)
listing(S) ==
  IF S = {} THEN << >>
  ELSE LET m == CHOOSE e \in S : \A f \in S : e.stem <= f.stem
       IN <<m>> \o listing(S \ {m})

\* response.data[0].src values the image host may answer with
Srcs == {"/file/s1", "/file/s2"}
\* error.message values of a failed upload attempt
ErrMsgs == {"timeout", "status 500"}

\* answers of the Telegraph API: ok with a result, not ok with an error,
\* or the request itself throws
AccountResps ==
  {[kind |-> "ok", token |-> "tok", error |-> ""],
   [kind |-> "notok", token |-> "", error |-> "SHORT_NAME_INVALID"],
   [kind |-> "throw", token |-> "", error |-> "network"]}
PageResps ==
  {[kind |-> "ok", url |-> <<"https:", "", "telegra.ph", "PAGE-11-05">>, error |-> ""],
   [kind |-> "notok", url |-> << >>, error |-> "CONTENT_INVALID"],
   [kind |-> "throw", url |-> << >>, error |-> "network"]}

\* variant: the retry counter is reported one too high
uploadSuccess_plus(file, src, retryCount) ==
  [filename |-> file, url |-> Some(<<BASE_URL, src>>), status |-> "success",
   retries |-> retryCount + 1]

(* ---- response.data.ok (src/app.js 168, 206, 233) ---- *)
\* variant: the ok flag of the answer is not looked at
responseOk_always(resp) == TRUE

\* the request did not throw and the answer has ok = true
responseOk(resp) == resp.kind = "ok"

(* ---- uploadFile results (src/app.js 102-117) ---- *)
uploadSuccess(file, src, retryCount) ==
  [filename |-> file, url |-> Some(<<BASE_URL, src>>), status |-> "success",
   retries |-> retryCount]

\* variant: the message is left out of the error result
uploadError_noMessage(file, message, retryCount) ==
  [filename |-> file, url |-> Null, status |-> "error", retries |-> retryCount]

uploadError(file, message, retryCount) ==
  [filename |-> file, url |-> Null, status |-> "error", error |-> message,
   retries |-> retryCount]

\* variant: the give-up test never matches
exhausted_never(retryCount) == FALSE

\* variant: gives up one attempt early
exhausted_early(retryCount) == retryCount >= RETRY_TIMES - 1

\* line 109: the catch block gives up
exhausted(retryCount) == retryCount = RETRY_TIMES

\* variant: < instead of <=
mayAttempt_strict(retryCount) == retryCount < RETRY_TIMES

\* line 85: the while condition
mayAttempt(retryCount) == retryCount <= RETRY_TIMES

\* variant: the counter is not incremented after the delay
nextRetryCount_stuck(retryCount) == retryCount

\* line 120: retryCount++
nextRetryCount(retryCount) == retryCount + 1

\* variant: the 0-based index is written
progressValue_index(idx) == idx

\* line 135: the completed count written to stdout, i + 1
progressValue(idx) == idx + 1

(* ---- getImageFiles filter (src/app.js 66-68) ---- *)
RECURSIVE filterImages(_)
filterImages(files) ==
  IF files = << >> THEN << >>
  ELSE (IF toLowerCase(Head(files).ext) \in ALLOWED_EXT THEN <<Head(files)>> ELSE << >>)
       \o filterImages(Tail(files))

(* ---- main helpers ---- *)
\* variant: the result is put in front (unshift) instead of appended
pushResult_unshift(rs, r) == <<r>> \o rs

\* line 133: results.push(result)
pushResult(rs, r) == Append(rs, r)

\* variant: nothing is filtered out
successFilter_all(rs) == rs

\* line 274: results.filter(item => item.status === "success")
RECURSIVE successFilter(_)
successFilter(rs) ==
  IF rs = << >> THEN << >>
  ELSE (IF Head(rs).status = "success" THEN <<Head(rs)>> ELSE << >>)
       \o successFilter(Tail(rs))

\* variant: >= instead of >
needAssembly_ge(sr) == Len(sr) >= 0

\* line 276
needAssembly(sr) == Len(sr) > 0

\* lines 184-190 and 290-296: one figure node per image
figureNodes(images) ==
  [k \in 1..Len(images) |->
    [tag |-> "figure",
     children |-> <<[tag |-> "img", src |-> images[k].url],
                    [tag |-> "figcaption", text |-> images[k].filename]>>]]

\* lines 182-191: content built by createTelegraphPage
pageContent(images) ==
  <<[tag |-> "p", text |-> <<"uploaded ">> \o numToDigits(Len(images)) \o <<" images">>]>>
  \o figureNodes(images)

\* lines 290-296: content main passes to editTelegraphPage
editContent(images) == figureNodes(images)

\* line 285: pageUrl.split("/").pop()
pagePathOf(url) == url[Len(url)]

(* ---- await axios.post (src/app.js 98) ---- *)
\* the request is sent ...
requestStart(n) == n + 1
\* variant: the next attempt does not wait for the request to settle
requestReturn_leak(n) == n

\* ... and uploadFile continues only once it has resolved or rejected
requestReturn(n) == n - 1

(* ---- checkpoint file (RESULT_JSON) ---- *)
NoFile == [exists |-> FALSE]
\* JSON.stringify of the results array: every field of an outcome is a
\* string, number or null, so each survives; the file holds the array
JSONstringify(rs) == [exists |-> TRUE, complete |-> TRUE, isNull |-> FALSE, list |-> rs]
JSONnull == [exists |-> TRUE, complete |-> TRUE, isNull |-> TRUE, list |-> << >>]
\* what fs.writeFileSync leaves when it does not complete: it opens
\* RESULT_JSON itself for writing (created or truncated) and writes the text
\* into it, so the file holds the text cut after k outcomes, without the
\* closing bracket
truncated(rs, k) ==
  [exists |-> TRUE, complete |-> FALSE, isNull |-> FALSE, list |-> SubSeq(rs, 1, k)]
\* JSON.parse accepts the text of a complete value only
parses(cp) == cp.complete
\* variant: the existence test is lost and every run uploads
checkpointExists_never(cp) == FALSE

\* line 257
checkpointExists(cp) == cp.exists
\* lines 266-272: JSON.parse, then "results === null -> []"
loadResults(cp) == IF cp.isNull THEN << >> ELSE cp.list

\* result files that may already be on disk when the program starts
E1 == [stem |-> 1, ext |-> ".png"]
E2 == [stem |-> 2, ext |-> ".JPG"]
StoredFiles ==
  {NoFile, JSONnull,
   JSONstringify(<< >>),
   JSONstringify(<<uploadError(E1, "timeout", RETRY_TIMES)>>),
   JSONstringify(<<uploadError(E1, "timeout", RETRY_TIMES),
                   uploadError(E2, "status 500", RETRY_TIMES)>>),
   JSONstringify(<<uploadSuccess(E1, "/file/s1", 0)>>),
   JSONstringify(<<uploadError(E1, "timeout", RETRY_TIMES),
                   uploadSuccess(E2, "/file/s2", 3)>>),
   truncated(<<uploadSuccess(E1, "/file/s1", 0),
               uploadSuccess(E2, "/file/s2", 3)>>, 1)}

VARIABLES
  pc,           \* position of main
  dir,          \* IMAGE_DIR: Null (missing) or Some(listing)
  checkpoint,   \* RESULT_JSON on disk
  imageFiles,   \* main's imageFiles: Null or Some(list)
  results,      \* main's results / concurrentUpload's results
  i,            \* concurrentUpload's loop index (0-based)
  upc,          \* position inside the loop body: "loop", "inflight", "delay"
  retryCount,   \* uploadFile's retryCount
  accessToken, pageUrl, updatedPageUrl,
  exitCode,     \* -1 while running, 0 normal exit, 1 process.exit(1)
  \* observation of the effects on the outside world
  inFlight,     \* upload requests started and not yet returned
  uploadCalls,  \* upload requests started, in total
  callsThis,    \* upload requests started for the current file
  failsThis,    \* of these, the failed ones
  delaysThis,   \* RETRY_DELAY timers set for the current file
  firstErr, lastErr, \* message of first / latest failed attempt of the file
  progress,     \* the completed counts written to stdout, in order
  cpWrites,     \* calls of fs.writeFileSync(RESULT_JSON, ...)
  docCalls,     \* requests sent to the Telegraph API, in order
  mdWritten,    \* RESULT_MD written
  reported,     \* the final succeeded/total line was logged
  cp0           \* RESULT_JSON as it was at program start

vars == <<pc, dir, checkpoint, imageFiles, results, i, upc, retryCount,
          accessToken, pageUrl, updatedPageUrl, exitCode, inFlight,
          uploadCalls, callsThis, failsThis, delaysThis, firstErr, lastErr,
          progress, cpWrites, docCalls, mdWritten, reported, cp0>>

mainVars == <<accessToken, pageUrl, updatedPageUrl>>
uploadObs == <<inFlight, uploadCalls, callsThis, failsThis, delaysThis, firstErr, lastErr,
              progress>>
uploadVars == <<i, upc, retryCount>>
outVars == <<cpWrites, docCalls, mdWritten, reported>>

Init ==
  /\ pc = "start"
  /\ dir \in {Null} \cup {Some(listing(S)) : S \in SUBSET DirEntries}
  /\ checkpoint \in StoredFiles
  /\ cp0 = checkpoint
  /\ imageFiles = Null
  /\ results = << >>
  /\ i = 0 /\ upc = "loop" /\ retryCount = 0
  /\ accessToken = "" /\ pageUrl = << >> /\ updatedPageUrl = << >>
  /\ exitCode = -1
  /\ inFlight = 0 /\ uploadCalls = 0 /\ callsThis = 0 /\ failsThis = 0
  /\ delaysThis = 0
  /\ firstErr = "" /\ lastErr = ""
  /\ progress = << >>
  /\ cpWrites = 0 /\ docCalls = << >> /\ mdWritten = FALSE /\ reported = FALSE

\* variant: the catch block ends the process with status 0
exit1_status0 ==
  /\ pc' = "exit"
  /\ exitCode' = 0

\* process.exit(1): getImageFiles line 77, main line 316
exit1 ==
  /\ pc' = "exit"
  /\ exitCode' = 1

(* ---- main, lines 246-267 ---- *)
\* line 257, RESULT_JSON absent: the upload branch is taken
mainFresh ==
  /\ pc = "start"
  /\ ~checkpointExists(checkpoint)
  /\ pc' = "scan"
  /\ UNCHANGED <<dir, checkpoint, imageFiles, results, exitCode, cp0>>
  /\ UNCHANGED <<mainVars, uploadVars, uploadObs, outVars>>

\* lines 264-272, RESULT_JSON present: its content becomes results; text
\* that JSON.parse rejects makes it throw, and main's catch block exits
mainResume ==
  /\ pc = "start"
  /\ checkpointExists(checkpoint)
  /\ IF parses(checkpoint)
     THEN /\ results' = loadResults(checkpoint)
          /\ pc' = "filter"
          /\ UNCHANGED exitCode
     ELSE /\ exit1
          /\ UNCHANGED results
  /\ UNCHANGED <<dir, checkpoint, imageFiles, cp0>>
  /\ UNCHANGED <<mainVars, uploadVars, uploadObs, outVars>>

(* ---- getImageFiles, lines 59-79 ---- *)
getImageFiles ==
  /\ pc = "scan"
  /\ IF dir.isNull \/ filterImages(dir.val) = << >>
     THEN /\ exit1
          /\ UNCHANGED imageFiles
     ELSE /\ imageFiles' = Some(filterImages(dir.val))
          /\ pc' = "upload"
          /\ UNCHANGED exitCode
  /\ UNCHANGED <<dir, checkpoint, results, cp0>>
  /\ UNCHANGED <<mainVars, uploadVars, uploadObs, outVars>>

(* ---- concurrentUpload / uploadFile, lines 82-140 ---- *)
\* loop head with i < files.length: uploadFile(files[i]) is entered,
\* retryCount = 0, and the first request is sent
uploadFileStart ==
  /\ pc = "upload" /\ upc = "loop"
  /\ i < Len(imageFiles.val)
  /\ retryCount' = 0
  /\ upc' = "inflight"
  /\ inFlight' = requestStart(inFlight)
  /\ uploadCalls' = uploadCalls + 1
  /\ callsThis' = 1 /\ failsThis' = 0 /\ delaysThis' = 0
  /\ firstErr' = "" /\ lastErr' = ""
  /\ UNCHANGED <<pc, dir, checkpoint, imageFiles, results, i, exitCode, cp0, progress>>
  /\ UNCHANGED <<mainVars, outVars>>

\* the request resolves: lines 102-107, then 133-136 in the caller
uploadFileSuccess ==
  /\ pc = "upload" /\ upc = "inflight"
  /\ \E src \in Srcs :
       results' = pushResult(results, uploadSuccess(imageFiles.val[i + 1], src, retryCount))
  /\ inFlight' = requestReturn(inFlight)
  /\ progress' = Append(progress, progressValue(i))
  /\ i' = i + 1
  /\ upc' = "loop"
  /\ UNCHANGED <<pc, dir, checkpoint, imageFiles, retryCount, exitCode, cp0>>
  /\ UNCHANGED <<uploadCalls, callsThis, failsThis, delaysThis, firstErr, lastErr>>
  /\ UNCHANGED <<mainVars, outVars>>

\* the request rejects: the catch block, lines 108-119
uploadFileFailure ==
  /\ pc = "upload" /\ upc = "inflight"
  /\ \E msg \in ErrMsgs :
       /\ lastErr' = msg
       /\ firstErr' = IF failsThis = 0 THEN msg ELSE firstErr
       /\ IF exhausted(retryCount)
          THEN /\ results' = pushResult(results, uploadError(imageFiles.val[i + 1], msg, retryCount))
               /\ progress' = Append(progress, progressValue(i))
               /\ i' = i + 1
               /\ upc' = "loop"
               /\ UNCHANGED delaysThis
          ELSE /\ upc' = "delay"
               /\ delaysThis' = delaysThis + 1
               /\ UNCHANGED <<results, progress, i>>
  /\ inFlight' = requestReturn(inFlight)
  /\ failsThis' = failsThis + 1
  /\ UNCHANGED <<pc, dir, checkpoint, imageFiles, retryCount, exitCode, cp0>>
  /\ UNCHANGED <<uploadCalls, callsThis>>
  /\ UNCHANGED <<mainVars, outVars>>

\* the RETRY_DELAY timer fires: line 120, the while test, the next request
uploadFileRetry ==
  /\ pc = "upload" /\ upc = "delay"
  /\ retryCount' = nextRetryCount(retryCount)
  /\ IF mayAttempt(nextRetryCount(retryCount))
     THEN /\ upc' = "inflight"
          /\ inFlight' = requestStart(inFlight)
          /\ uploadCalls' = uploadCalls + 1
          /\ callsThis' = callsThis + 1
          /\ UNCHANGED <<results, progress, i>>
     ELSE \* the loop falls through: uploadFile returns undefined, which is pushed
          /\ results' = pushResult(results, [status |-> "undefined"])
          /\ progress' = Append(progress, progressValue(i))
          /\ i' = i + 1
          /\ upc' = "loop"
          /\ UNCHANGED <<inFlight, uploadCalls, callsThis>>
  /\ UNCHANGED <<pc, dir, checkpoint, imageFiles, exitCode, cp0>>
  /\ UNCHANGED <<failsThis, delaysThis, firstErr, lastErr>>
  /\ UNCHANGED <<mainVars, outVars>>

\* loop head with i = files.length: line 139, back in main at line 260
concurrentUploadReturn ==
  /\ pc = "upload" /\ upc = "loop"
  /\ ~(i < Len(imageFiles.val))
  /\ pc' = "save"
  /\ UNCHANGED <<dir, checkpoint, imageFiles, results, exitCode, cp0>>
  /\ UNCHANGED <<mainVars, uploadVars, uploadObs, outVars>>

\* line 263, fs.writeFileSync throws (the file cannot be opened, or the
\* write fails part way): RESULT_JSON stays absent or is left cut short,
\* and main's catch block exits
saveCheckpointFails ==
  /\ pc = "save"
  /\ checkpoint' \in {NoFile} \cup {truncated(results, k) : k \in 0..Len(results)}
  /\ cpWrites' = cpWrites + 1
  /\ exit1
  /\ UNCHANGED <<dir, imageFiles, results, cp0>>
  /\ UNCHANGED <<docCalls, mdWritten, reported>>
  /\ UNCHANGED <<mainVars, uploadVars, uploadObs>>

\* variant: the results are not written
saveCheckpoint_skipped ==
  /\ pc = "save"
  /\ pc' = "filter"
  /\ UNCHANGED <<dir, checkpoint, imageFiles, results, exitCode, cp0>>
  /\ UNCHANGED <<mainVars, uploadVars, uploadObs, outVars>>

\* line 263, fs.writeFileSync returns
saveCheckpoint ==
  /\ pc = "save"
  /\ checkpoint' = JSONstringify(results)
  /\ cpWrites' = cpWrites + 1
  /\ pc' = "filter"
  /\ UNCHANGED <<dir, imageFiles, results, exitCode, cp0>>
  /\ UNCHANGED <<docCalls, mdWritten, reported>>
  /\ UNCHANGED <<mainVars, uploadVars, uploadObs>>

(* ---- main, lines 274-305: page assembly ---- *)
\* lines 274-277: with a success, createTelegraphAccount sends its request
mainAssemble ==
  /\ pc = "filter"
  /\ IF needAssembly(successFilter(results))
     THEN /\ docCalls' = Append(docCalls, [api |-> "createAccount", ev |-> "call"])
          /\ pc' = "account"
     ELSE /\ pc' = "report"
          /\ UNCHANGED docCalls
  /\ UNCHANGED <<dir, checkpoint, imageFiles, results, exitCode, cp0>>
  /\ UNCHANGED <<cpWrites, mdWritten, reported>>
  /\ UNCHANGED <<mainVars, uploadVars, uploadObs>>

\* lines 159-176, then 278-281 and 182-204: the token is returned and
\* createTelegraphPage sends its request; or the error reaches main's catch
createTelegraphAccount ==
  /\ pc = "account"
  /\ \E resp \in AccountResps :
       IF responseOk(resp)
       THEN /\ accessToken' = resp.token
            /\ docCalls' = docCalls \o
                 <<[api |-> "createAccount", ev |-> "ok"],
                   [api |-> "createPage", ev |-> "call", token |-> resp.token,
                    content |-> pageContent(successFilter(results))]>>
            /\ pc' = "page"
            /\ UNCHANGED exitCode
       ELSE /\ exit1
            /\ docCalls' = Append(docCalls, [api |-> "createAccount", ev |-> "fail"])
            /\ UNCHANGED accessToken
  /\ UNCHANGED <<dir, checkpoint, imageFiles, results, cp0, pageUrl, updatedPageUrl>>
  /\ UNCHANGED <<cpWrites, mdWritten, reported>>
  /\ UNCHANGED <<uploadVars, uploadObs>>

\* lines 206-214, then 285-297 and 220-231
createTelegraphPage ==
  /\ pc = "page"
  /\ \E resp \in PageResps :
       IF responseOk(resp)
       THEN /\ pageUrl' = resp.url
            /\ docCalls' = docCalls \o
                 <<[api |-> "createPage", ev |-> "ok"],
                   [api |-> "editPage", ev |-> "call", token |-> accessToken,
                    path |-> pagePathOf(resp.url), title |-> TELEGRAPH_TITLE,
                    content |-> editContent(successFilter(results))]>>
            /\ pc' = "edit"
            /\ UNCHANGED exitCode
       ELSE /\ exit1
            /\ docCalls' = Append(docCalls, [api |-> "createPage", ev |-> "fail"])
            /\ UNCHANGED pageUrl
  /\ UNCHANGED <<dir, checkpoint, imageFiles, results, cp0, accessToken, updatedPageUrl>>
  /\ UNCHANGED <<cpWrites, mdWritten, reported>>
  /\ UNCHANGED <<uploadVars, uploadObs>>

\* lines 233-241, then 298-304: RESULT_MD is written
editTelegraphPage ==
  /\ pc = "edit"
  /\ \E resp \in PageResps :
       IF responseOk(resp)
       THEN /\ updatedPageUrl' = resp.url
            /\ docCalls' = Append(docCalls, [api |-> "editPage", ev |-> "ok"])
            /\ mdWritten' = TRUE
            /\ pc' = "report"
            /\ UNCHANGED exitCode
       ELSE /\ exit1
            /\ docCalls' = Append(docCalls, [api |-> "editPage", ev |-> "fail"])
            /\ UNCHANGED <<updatedPageUrl, mdWritten>>
  /\ UNCHANGED <<dir, checkpoint, imageFiles, results, cp0, accessToken, pageUrl>>
  /\ UNCHANGED <<cpWrites, reported>>
  /\ UNCHANGED <<uploadVars, uploadObs>>

(* ---- main, lines 307-317 ---- *)
\* the message of line 309 reads imageFiles.length: with imageFiles null
\* this throws before anything is logged, and the catch block exits with 1
mainReport ==
  /\ pc = "report"
  /\ IF imageFiles.isNull
     THEN /\ exit1
          /\ UNCHANGED reported
     ELSE /\ reported' = TRUE
          /\ pc' = "done"
          /\ exitCode' = 0
  /\ UNCHANGED <<dir, checkpoint, imageFiles, results, cp0>>
  /\ UNCHANGED <<cpWrites, docCalls, mdWritten>>
  /\ UNCHANGED <<mainVars, uploadVars, uploadObs>>

Next ==
  \/ mainFresh
  \/ mainResume
  \/ getImageFiles
  \/ uploadFileStart
  \/ uploadFileSuccess
  \/ uploadFileFailure
  \/ uploadFileRetry
  \/ concurrentUploadReturn
  \/ saveCheckpoint
  \/ saveCheckpointFails
  \/ mainAssemble
  \/ createTelegraphAccount
  \/ createTelegraphPage
  \/ editTelegraphPage
  \/ mainReport

Spec == Init /\ [][Next]_vars

\* the awaits of the upload loop: every request resolves or rejects, every
\* RETRY_DELAY timer fires, and the synchronous code in between runs on
FairSpec ==
  /\ Spec
  /\ WF_vars(uploadFileStart)
  /\ WF_vars(uploadFileSuccess \/ uploadFileFailure)
  /\ WF_vars(uploadFileRetry)
  /\ WF_vars(concurrentUploadReturn)

(***************************************************************************)
(* Properties                                                              *)
(***************************************************************************)
fresh == ~cp0.exists
resumed == cp0.exists
\* a file's uploadFile call has returned and no later one has started, so
\* callsThis, failsThis, firstErr, lastErr describe results[i]
settled == fresh /\ upc = "loop" /\ i > 0
noSuccess == successFilter(results) = << >>
terminated == pc \in {"done", "exit"}

\* C1: in a fresh run the outcomes are those of the files, in the order of
\* the file list: while uploading, results holds one outcome for each of the
\* first i files, and once concurrentUpload has returned it holds one for
\* every file, with results[k].filename = imageFiles[k].
C1_OutcomesInTaskOrder ==
  (fresh /\ ~imageFiles.isNull) =>
    /\ Len(results) = i
    /\ \A k \in 1..Len(results) : results[k].filename = imageFiles.val[k]
    /\ (pc # "upload" => Len(results) = Len(imageFiles.val))

C1_Witness ==
  /\ fresh /\ pc = "save"
  /\ Len(results) = 2
  /\ results[1].status = "error"
  /\ results[2].status = "success" /\ results[2].retries > 0

\* C2: a run that finds RESULT_JSON at start sends no upload request, never
\* writes RESULT_JSON (its content stays what it was), and from the load on
\* works with exactly the stored list.
C2_ResumeUsesStoredList ==
  resumed =>
    /\ uploadCalls = 0 /\ inFlight = 0
    /\ cpWrites = 0 /\ checkpoint = cp0
    /\ ((pc # "start" /\ parses(cp0) /\ ~cp0.isNull) => results = cp0.list)

C2_Witness ==
  /\ resumed /\ terminated
  /\ Len(results) = 2
  /\ \A k \in 1..2 : results[k].status = "error"

\* C3: at most CONCURRENCY upload requests are in flight at any time.
C3_InFlightBounded == inFlight <= CONCURRENCY

C3_Witness == inFlight = 1 /\ uploadCalls > CONCURRENCY /\ i = 1

\* C4: the uploads are not serialized: a file has to wait for its upload to
\* start only while CONCURRENCY other uploadFile calls are running (request
\* in flight or retry delay pending).
C4_WaitsOnlyWhenPoolFull ==
  LET running == IF upc \in {"inflight", "delay"} THEN 1 ELSE 0
      waiting == IF imageFiles.isNull THEN 0 ELSE Len(imageFiles.val) - i - running
  IN (pc = "upload" /\ waiting > 0 /\ running > 0) => running >= CONCURRENCY

\* C5: a file whose last attempt succeeded after k failed ones has the
\* outcome status = success, retries = k, after exactly k + 1 requests,
\* for k up to RETRY_TIMES.
C5_SuccessAfterKFailures ==
  (settled /\ callsThis = failsThis + 1) =>
    /\ results[i].status = "success"
    /\ results[i].retries = failsThis
    /\ failsThis <= RETRY_TIMES

C5_Witness ==
  /\ settled /\ failsThis = RETRY_TIMES /\ callsThis = RETRY_TIMES + 1
  /\ results[i].status = "success" /\ results[i].retries = RETRY_TIMES

\* C6: a file whose attempts all failed was attempted exactly
\* RETRY_TIMES + 1 times and has one outcome with status = error,
\* retries = RETRY_TIMES, url null and the message of the last failure;
\* no file is ever attempted more than RETRY_TIMES + 1 times.
C6_ExhaustedOutcome ==
  /\ callsThis <= RETRY_TIMES + 1
  /\ (settled /\ callsThis = failsThis) =>
       /\ callsThis = RETRY_TIMES + 1
       /\ Len(results) = i
       /\ results[i] = [filename |-> imageFiles.val[i], url |-> Null,
                        status |-> "error", error |-> lastErr,
                        retries |-> RETRY_TIMES]

C6_Witness ==
  /\ settled /\ callsThis = failsThis
  /\ firstErr # lastErr
  /\ results[i].error = lastErr

\* C7: while the outcome list holds no success, no request has been sent to
\* the Telegraph API and RESULT_MD has not been written; in particular this
\* is so at the end of a run without any success.
C7_NoAssemblyWithoutSuccess ==
  noSuccess => (docCalls = << >> /\ ~mdWritten)

C7_Witness ==
  /\ terminated /\ fresh /\ Len(results) = 2 /\ noSuccess

\* C8: a run that has ended with an outcome list (uploaded or loaded) that
\* holds no success has logged the final succeeded/total line.
C8_TotalsReported ==
  (terminated /\ (resumed \/ ~imageFiles.isNull) /\ noSuccess) => reported

\* C9: createPage is requested only right after createAccount returned a
\* token, with that token; editPage only right after createPage returned a
\* URL, for the path of that URL; a failed request is the last one.
C9_AssemblyOrder ==
  \A k \in 1..Len(docCalls) :
    /\ (docCalls[k].api = "createPage" /\ docCalls[k].ev = "call") =>
         /\ k > 1 /\ docCalls[k - 1] = [api |-> "createAccount", ev |-> "ok"]
         /\ accessToken # "" /\ docCalls[k].token = accessToken
    /\ (docCalls[k].api = "editPage" /\ docCalls[k].ev = "call") =>
         /\ k > 1 /\ docCalls[k - 1] = [api |-> "createPage", ev |-> "ok"]
         /\ pageUrl # << >> /\ docCalls[k].path = pageUrl[Len(pageUrl)]
    /\ docCalls[k].ev = "fail" => k = Len(docCalls)

C9_Witness ==
  /\ Len(docCalls) = 6
  /\ docCalls[3].api = "createPage" /\ docCalls[3].ev = "call"
  /\ docCalls[5].api = "editPage" /\ docCalls[5].ev = "call"
  /\ docCalls[6].ev = "ok"

\* C10: the content sent with editPage equals the content sent with
\* createPage in the same run.
C10_SameContentInBothPhases ==
  \A j, k \in 1..Len(docCalls) :
    (/\ docCalls[j].api = "createPage" /\ docCalls[j].ev = "call"
     /\ docCalls[k].api = "editPage" /\ docCalls[k].ev = "call")
    => docCalls[k].content = docCalls[j].content

\* C11: each of createAccount, createPage, editPage is requested at most
\* once per run, and once one of them has failed the run has ended with
\* exit status 1 and RESULT_MD has not been written.
C11_AssemblyFailureIsFatal ==
  /\ \A a \in {"createAccount", "createPage", "editPage"} :
       Cardinality({k \in 1..Len(docCalls) :
                      docCalls[k].api = a /\ docCalls[k].ev = "call"}) <= 1
  /\ (\E k \in 1..Len(docCalls) : docCalls[k].ev = "fail") =>
       (pc = "exit" /\ exitCode = 1 /\ ~mdWritten)

C11_Witness ==
  /\ Len(docCalls) = 4
  /\ docCalls[4] = [api |-> "createPage", ev |-> "fail"]
  /\ exitCode = 1

\* C12: fs.writeFileSync(RESULT_JSON) is called at most once per run and
\* never in a resumed run; in a fresh run it is called only when every file
\* has its outcome, and whenever the run is past the save (in particular
\* once a Telegraph request has been sent) it has been called exactly once
\* and the file holds the results.
C12_SavedOnceBeforeAssembly ==
  /\ cpWrites <= 1
  /\ resumed => cpWrites = 0
  /\ (fresh /\ cpWrites = 1) =>
       (~imageFiles.isNull /\ Len(results) = Len(imageFiles.val) /\ inFlight = 0)
  /\ (fresh /\ (docCalls # << >> \/ pc \in {"filter", "account", "page", "edit", "report", "done"})) =>
       (cpWrites = 1 /\ checkpoint = JSONstringify(results))

C12_Witness ==
  /\ fresh /\ pc = "account" /\ cpWrites = 1
  /\ docCalls = <<[api |-> "createAccount", ev |-> "call"]>>

\* C13: in a run that started without RESULT_JSON, the file on disk (what a
\* later run's existsSync / readFileSync sees) is at every moment either
\* absent or the complete text of the outcome list.
C13_SaveAllOrNothing ==
  fresh => (checkpoint = NoFile \/ checkpoint = JSONstringify(results))

\* C14: upload failures never end a fresh run: every entry of results is a
\* success or error outcome, every file that has an outcome was requested at
\* least once, and a run that got its file list ends only after all files
\* have an outcome and the save has been reached.
C14_UploadFailuresAbsorbed ==
  (fresh /\ ~imageFiles.isNull) =>
    /\ \A k \in 1..Len(results) : results[k].status \in {"success", "error"}
    /\ uploadCalls >= i + (IF upc = "loop" THEN 0 ELSE 1)
    /\ (settled => callsThis >= 1)
    /\ (pc # "upload" => (Len(results) = Len(imageFiles.val) /\ i = Len(imageFiles.val)))
    /\ (terminated => cpWrites = 1)

C14_Witness ==
  /\ fresh /\ pc = "save" /\ Len(results) = 2
  /\ \A k \in 1..2 : results[k].status = "error"
  /\ uploadCalls = 2 * (RETRY_TIMES + 1)

\* C15: the content sent with createPage is one summary paragraph with the
\* number of successful outcomes, then one figure per successful outcome
\* and none for the others, in the order of the outcome list, each with an
\* img node for the outcome's url and a figcaption for its filename.
C15_PageContent ==
  LET succ == {j \in 1..Len(results) : results[j].status = "success"}
      n == Cardinality(succ)
      nth(k) == CHOOSE j \in succ : Cardinality({m \in succ : m <= j}) = k
      digit == <<"0", "1", "2", "3", "4", "5", "6", "7", "8", "9">>
  IN \A c \in 1..Len(docCalls) :
       (docCalls[c].api = "createPage" /\ docCalls[c].ev = "call") =>
         LET content == docCalls[c].content
         IN /\ Len(content) = n + 1
            /\ n <= 9
            /\ content[1] = [tag |-> "p", text |-> <<"uploaded ", digit[n + 1], " images">>]
            /\ \A k \in 1..n :
                 content[k + 1] =
                   [tag |-> "figure",
                    children |-> <<[tag |-> "img", src |-> results[nth(k)].url],
                                   [tag |-> "figcaption", text |-> results[nth(k)].filename]>>]

C15_Witness ==
  /\ fresh /\ Len(results) = 2
  /\ results[1].status = "error" /\ results[2].status = "success"
  /\ Len(docCalls) >= 3 /\ docCalls[3].api = "createPage"
  /\ Len(docCalls[3].content) = 2

\* C16: every outcome that the upload loop produced has status success or
\* error, a url iff it is a success, an error message iff it is an error,
\* and 0 <= retries <= RETRY_TIMES.
C16_OutcomeShape ==
  fresh =>
    \A k \in 1..Len(results) :
      LET r == results[k]
      IN /\ r.status \in {"success", "error"}
         /\ (r.status = "success") <=> ~r.url.isNull
         /\ (r.status = "error") <=> ("error" \in DOMAIN r)
         /\ 0 <= r.retries /\ r.retries <= RETRY_TIMES

C16_Witness ==
  /\ fresh /\ Len(results) = 2
  /\ results[1].status = "success" /\ results[1].retries = RETRY_TIMES
  /\ results[2].status = "error" /\ results[2].error = "status 500"

\* C17: in a fresh run the completed counts written so far are exactly
\* 1, 2, ..., (number of files that have an outcome): one report per
\* settled file, none before it settles, increasing by one, and N is
\* written when the last file settles.
C17_ProgressPerSettledFile ==
  fresh =>
    /\ Len(progress) = Len(results)
    /\ \A k \in 1..Len(progress) : progress[k] = k

C17_Witness ==
  /\ fresh /\ pc = "upload" /\ upc = "loop"
  /\ progress = <<1, 2>> /\ Len(imageFiles.val) = 2

\* C18: while a request is in flight the file has had one delay and one
\* increment of retryCount per earlier attempt; during a delay the timer was
\* set after the failed attempt and retryCount is not yet incremented; a
\* settled file has one delay fewer than attempts, so no delay follows a
\* success or the failure that exhausts the retries.
C18_DelayThenIncrement ==
  fresh =>
    /\ upc = "inflight" =>
         (delaysThis = callsThis - 1 /\ retryCount = delaysThis /\ failsThis = delaysThis)
    /\ upc = "delay" =>
         (delaysThis = callsThis /\ retryCount = delaysThis - 1 /\ failsThis = callsThis
          /\ retryCount < RETRY_TIMES)
    /\ settled =>
         (delaysThis = callsThis - 1 /\ results[i].retries = delaysThis)

C18_Witness ==
  /\ settled /\ results[i].status = "error"
  /\ delaysThis = RETRY_TIMES /\ callsThis = RETRY_TIMES + 1

\* C19: a resumed run that has written RESULT_MD ends with exit status 0.
C19_ResumedRunExitsNormally ==
  (resumed /\ terminated /\ mdWritten) => exitCode = 0

\* C20: when every request and every delay returns, a fresh run that has
\* entered the upload loop gets to the end of it with a success or error
\* outcome for every file, and never sends more than
\* N * (RETRY_TIMES + 1) upload requests.
C20_UploadsTerminate ==
  /\ [](~imageFiles.isNull => uploadCalls <= Len(imageFiles.val) * (RETRY_TIMES + 1))
  /\ (fresh /\ pc = "upload") ~>
       /\ pc = "save"
       /\ Len(results) = Len(imageFiles.val)
       /\ \A k \in 1..Len(results) : results[k].status \in {"success", "error"}

C20_Witness ==
  /\ fresh /\ pc = "save" /\ Len(results) = 2
  /\ uploadCalls = 2 * (RETRY_TIMES + 1)
  /\ \A k \in 1..2 : results[k].status = "error" /\ results[k].error = "timeout"

====
